---------------------------- MODULE Spec2Model ----------------------------
(***************************************************************************)
(* Model of job_alert.py: the SerpAPI fetch with retry, the relevance      *)
(* filter, normalize_row with its supplementary lookup, posted_days,       *)
(* dedupe_by_job_id and the tail of main (dedupe, 7-day window, sort,      *)
(* create_excel).                                                          *)
(*                                                                         *)
(* A Python str is a sequence of one-character strings, so that "in",      *)
(* lower(), strip(), re.search and quote_plus are computed character by    *)
(* character.  Any other Python value met in a raw posting is a tagged     *)
(* record: None, str, int, list, dict.                                     *)
(***************************************************************************)
EXTENDS Integers, Sequences, FiniteSets, TLC

VARIABLES
    pc,        \* control position of the modelled run
    qi,        \* index in build_queries() of the query being processed
    attempt,   \* loop variable of serpapi_google_jobs (0: no call is running)
    fetch_ok,  \* whether the latest serpapi_google_jobs call returned from line 81
    jobs,      \* list returned by serpapi_google_jobs for query qi
    ji,        \* index in jobs of the posting the inner loop is at
    all_rows,  \* main's accumulator
    lattempt,  \* loop variable of serpapi_google_jobs_listing (0: not called)
    last,      \* the latest posting handled by the inner loop and what became of it
    accum,     \* all_rows as it stood before line 370
    deduped,   \* all_rows as it stood after line 370
    report,    \* the rows handed to create_excel
    text,      \* argument of a stand-alone posted_days call
    days       \* its result

vars == <<pc, qi, attempt, fetch_ok, jobs, ji, all_rows, lattempt, last,
          accum, deduped, report, text, days>>

mainVars == <<qi, attempt, fetch_ok, jobs, ji, all_rows, lattempt, last,
              accum, deduped, report>>

-----------------------------------------------------------------------------
(* Python str as a sequence of characters *)

\* the characters of a string literal
S(str) == SubSeq([i \in 1..Len(str) |-> SubSeq(str, i, i)], 1, Len(str))

UpperAlpha == S("ABCDEFGHIJKLMNOPQRSTUVWXYZ")
LowerAlpha == S("abcdefghijklmnopqrstuvwxyz")
Digits == S("0123456789")

DigitSet == {Digits[k] : k \in 1..10}
UpperSet == {UpperAlpha[k] : k \in 1..26}
LowerSet == {LowerAlpha[k] : k \in 1..26}
DigitValOf == [c \in DigitSet |-> (CHOOSE k \in 1..10 : Digits[k] = c) - 1]
LowerOf == [c \in UpperSet |-> LowerAlpha[CHOOSE k \in 1..26 : UpperAlpha[k] = c]]

IsDigit(c) == c \in DigitSet
IsSpace(c) == c \in {" ", "\t", "\n"}
IsAlnum(c) == c \in DigitSet \/ c \in UpperSet \/ c \in LowerSet

DigitVal(c) == DigitValOf[c]

LowerChar(c) == IF c \in UpperSet THEN LowerOf[c] ELSE c

\* str.lower()
Lower(s) == SubSeq([i \in 1..Len(s) |-> LowerChar(s[i])], 1, Len(s))

Min(A) == CHOOSE x \in A : \A y \in A : x <= y
Max(A) == CHOOSE x \in A : \A y \in A : x >= y

\* str.strip()
Strip(s) ==
    LET keep == {i \in 1..Len(s) : ~IsSpace(s[i])}
    IN  IF keep = {} THEN <<>> ELSE SubSeq(s, Min(keep), Max(keep))

\* s[i:].startswith(pat), i counted from 1
HasAt(s, i, pat) ==
    /\ i >= 1
    /\ i + Len(pat) - 1 <= Len(s)
    /\ \A k \in 1..Len(pat) : s[i + k - 1] = pat[k]

\* pat in s
Contains(s, pat) ==
    LET n == Len(s)
        m == Len(pat)
    IN  \E i \in 1..(n - m + 1) : \A k \in 1..m : s[i + k - 1] = pat[k]

\* int(digits)
RECURSIVE ParseInt(_)
ParseInt(ds) ==
    IF ds = <<>> THEN 0
    ELSE 10 * ParseInt(SubSeq(ds, 1, Len(ds) - 1)) + DigitVal(ds[Len(ds)])

\* str(n) for n >= 0
RECURSIVE IntToStr(_)
IntToStr(n) ==
    IF n < 10 THEN <<Digits[n + 1]>>
    ELSE Append(IntToStr(n \div 10), Digits[(n % 10) + 1])

RECURSIVE Join(_, _)
\* sep.join(parts)
Join(parts, sep) ==
    IF parts = <<>> THEN <<>>
    ELSE IF Len(parts) = 1 THEN parts[1]
    ELSE parts[1] \o sep \o Join(Tail(parts), sep)

-----------------------------------------------------------------------------
(* posted_days *)

NA == S("N/A")
STALE == 999

\* whether r"(\d+)\s+<unit>" matches at i with group(1) = s[i..e]
ReMatch(s, i, e, unit) ==
    /\ i <= e
    /\ \A k \in i..e : IsDigit(s[k])
    /\ \E w \in (e + 1)..Len(s) :
          /\ \A k \in (e + 1)..w : IsSpace(s[k])
          /\ HasAt(s, w + 1, unit)

\* re.search(r"(\d+)\s+<unit>", s): group(1) of the leftmost match, the
\* repetition being greedy; <<>> when there is no match
ReSearch(s, unit) ==
    LET starts == {i \in 1..Len(s) :
                      IsDigit(s[i]) /\ \E e \in i..Len(s) : ReMatch(s, i, e, unit)}
    IN  IF starts = {} THEN <<>>
        ELSE LET i == Min(starts)
                 e == Max({x \in i..Len(s) : ReMatch(s, i, x, unit)})
             IN  SubSeq(s, i, e)

\* the literals of posted_days
s_just_posted == S("just posted")
s_today == S("today")
s_yesterday == S("yesterday")
s_hour == S("hour")
s_day == S("day")
s_week == S("week")

\* posted_days without the lower() of line 196
posted_days_nolower(time_posted) ==
    IF time_posted = <<>> \/ time_posted = NA THEN STALE
    ELSE LET s == Strip(time_posted)
         IN  IF Contains(s, s_just_posted) \/ Contains(s, s_today) THEN 0
             ELSE IF Contains(s, s_yesterday) THEN 1
             ELSE IF ReSearch(s, s_hour) # <<>> THEN 0
             ELSE LET d == ReSearch(s, s_day)
                      w == ReSearch(s, s_week)
                  IN  IF d # <<>> THEN ParseInt(d)
                      ELSE IF w # <<>> THEN ParseInt(w) * 7
                      ELSE STALE

posted_days(time_posted) ==
    IF time_posted = <<>> \/ time_posted = NA THEN STALE
    ELSE LET s == Lower(Strip(time_posted))
         IN  IF Contains(s, s_just_posted) \/ Contains(s, s_today) THEN 0
             ELSE IF Contains(s, s_yesterday) THEN 1
             ELSE IF ReSearch(s, s_hour) # <<>> THEN 0
             ELSE LET d == ReSearch(s, s_day)
                      w == ReSearch(s, s_week)
                  IN  IF d # <<>> THEN ParseInt(d)
                      ELSE IF w # <<>> THEN ParseInt(w) * 7
                      ELSE STALE

-----------------------------------------------------------------------------
(* Python values other than str, as they occur in a raw posting *)

None == [t |-> "none"]
PyStr(s) == [t |-> "str", s |-> s]
PyInt(n) == [t |-> "int", n |-> n]
PyList(l) == [t |-> "list", l |-> l]
PyDict(d) == [t |-> "dict", d |-> d]
EmptyDict == PyDict(<<>>)
EmptyList == PyList(<<>>)
EmptyStr == PyStr(<<>>)

\* bool(v)
Truthy(v) ==
    CASE v.t = "none" -> FALSE
      [] v.t = "str"  -> v.s # <<>>
      [] v.t = "int"  -> v.n # 0
      [] v.t = "list" -> v.l # <<>>
      [] v.t = "dict" -> DOMAIN v.d # {}

\* v or default
Or(v, default) == IF Truthy(v) THEN v ELSE default

\* d.get(k) on a dict
Get(dv, k) == IF k \in DOMAIN dv.d THEN dv.d[k] ELSE None

\* str(v) for the str and int values of a posting
Str(v) == IF v.t = "int" THEN IntToStr(v.n) ELSE v.s

\* the outcome of a helper that raised AttributeError (no str has a
\* character of more than one letter)
RAISED == <<"AttributeError">>

s_unknown_source == S("Unknown")
s_dollar == S("$")
s_year == S("year")
s_ago == S("ago")
s_posted == S("posted")
s_bar == S("|")
s_space == S(" ")
s_careers == S(" careers")
s_search_prefix == S("https://www.google.com/search?q=")

\* links[i].get("link") or "N/A": AttributeError unless links[i] is a dict
LinkOf(entry) ==
    IF entry.t # "dict" THEN RAISED
    ELSE Or(Get(entry, "link"), PyStr(NA)).s

\* lines 117-121, and lines 133-137 with key "apply_options"
FirstLink(d, key) ==
    LET links == Or(Get(d, key), EmptyList)
    IN  IF links.t = "list" /\ links.l # <<>> THEN LinkOf(links.l[1]) ELSE NA

\* lines 124-130, and lines 140-146 with key "apply_options"
SecondLink(d, key) ==
    LET links == Or(Get(d, key), EmptyList)
    IN  IF links.t = "list" /\ Len(links.l) >= 2 THEN LinkOf(links.l[2])
        ELSE IF links.t = "list" /\ Len(links.l) = 1 THEN LinkOf(links.l[1])
        ELSE NA

safe_apply_link(job) == FirstLink(job, "related_links")
safe_source_link(job) == SecondLink(job, "related_links")
safe_apply_link_from_details(details) == FirstLink(details, "apply_options")
safe_source_link_from_details(details) == SecondLink(details, "apply_options")

\* isinstance(de, dict) and de.get(field), de being detected_extensions
HasDetected(d, field) ==
    LET de == Or(Get(d, "detected_extensions"), EmptyDict)
    IN  de.t = "dict" /\ Truthy(Get(de, field))

\* str(de[field])
Detected(d, field) == Str(Get(d, "detected_extensions").d[field])

\* the test of line 157 on a str item
PayHit(item) ==
    LET low == Lower(item)
    IN  Contains(item, s_dollar) \/ Contains(low, s_hour) \/ Contains(low, s_year)

\* the test of lines 177-180 on a str item
TimeHit(item) ==
    LET low == Lower(item)
    IN  \/ Contains(low, s_ago) \/ Contains(low, s_today)
        \/ Contains(low, s_yesterday) \/ Contains(low, s_posted)

\* the first str item of job["extensions"] that passes the test for pay or
\* for the posted text, else "N/A"
ScanExtensions(job, what) ==
    LET ext == Or(Get(job, "extensions"), EmptyList)
    IN  IF ext.t # "list" THEN NA
        ELSE LET hits == {i \in 1..Len(ext.l) :
                             /\ ext.l[i].t = "str"
                             /\ IF what = "pay" THEN PayHit(ext.l[i].s)
                                ELSE TimeHit(ext.l[i].s)}
             IN  IF hits = {} THEN NA ELSE ext.l[Min(hits)].s

safe_pay(job) ==
    IF HasDetected(job, "salary") THEN Detected(job, "salary")
    ELSE ScanExtensions(job, "pay")

safe_pay_from_details(details) ==
    IF HasDetected(details, "salary") THEN Detected(details, "salary") ELSE NA

safe_time_posted(job) ==
    IF HasDetected(job, "posted_at") THEN Detected(job, "posted_at")
    ELSE ScanExtensions(job, "time")

safe_time_posted_from_details(details) ==
    IF HasDetected(details, "posted_at") THEN Detected(details, "posted_at") ELSE NA

FOOD_HINTS ==
    << S("food"), S("food manufacturing"), S("food processing"), S("meat"),
       S("dairy"), S("bakery"), S("beverage"), S("plant"), S("production"),
       S("warehouse"), S("HACCP"), S("SQF"), S("FSQA"), S("GMP"),
       S("sanitation") >>

FoodHintsLower == {Lower(FOOD_HINTS[k]) : k \in 1..Len(FOOD_HINTS)}

\* the text of lines 217-221
FilterText(job) ==
    Lower(Join(<< Str(Or(Get(job, "title"), EmptyStr)),
                  Str(Or(Get(job, "company_name"), EmptyStr)),
                  Str(Or(Get(job, "description"), EmptyStr)) >>, s_space))

\* the filter looking at the title alone
looks_food_industry_title(job) ==
    LET t == Lower(Str(Or(Get(job, "title"), EmptyStr)))
    IN  \E h \in FoodHintsLower : Contains(t, h)

looks_food_industry(job) ==
    LET t == FilterText(job)
    IN  \E h \in FoodHintsLower : Contains(t, h)

\* urllib.parse.quote_plus on the characters of the bounded postings
PercentCode ==
    [c \in {"&", "/", "|", "$", ",", ":", "?", "=", "+", "'"} |->
        CASE c = "&" -> S("%26") [] c = "/" -> S("%2F") [] c = "|" -> S("%7C")
          [] c = "$" -> S("%24") [] c = "," -> S("%2C") [] c = ":" -> S("%3A")
          [] c = "?" -> S("%3F") [] c = "=" -> S("%3D") [] c = "+" -> S("%2B")
          [] c = "'" -> S("%27")]

QuoteChar(c) ==
    IF IsAlnum(c) \/ c \in {"_", ".", "-", "~"} THEN <<c>>
    ELSE IF c = " " THEN <<"+">>
    ELSE PercentCode[c]

RECURSIVE QuoteFrom(_, _)
QuoteFrom(s, i) ==
    IF i > Len(s) THEN <<>> ELSE QuoteChar(s[i]) \o QuoteFrom(s, i + 1)

quote_plus(s) == QuoteFrom(s, 1)

\* lines 225-229 without the guard of line 226
company_careers_search_link_unguarded(company_name) ==
    s_search_prefix \o quote_plus(company_name \o s_careers)

company_careers_search_link(company_name) ==
    IF company_name = <<>> \/ company_name = NA THEN NA
    ELSE s_search_prefix \o quote_plus(company_name \o s_careers)

-----------------------------------------------------------------------------
(* normalize_row *)

\* x or "N/A" for a str x
OrNA(x) == IF x # <<>> THEN x ELSE NA

\* lines 233-243: what the posting itself supplies
Primary(job) ==
    [ job_id       |-> Or(Get(job, "job_id"), PyStr(NA)).s,
      title        |-> Or(Get(job, "title"), PyStr(NA)).s,
      company_name |-> Or(Get(job, "company_name"), PyStr(NA)).s,
      location     |-> Or(Get(job, "location"), PyStr(NA)).s,
      source       |-> Or(Get(job, "via"), PyStr(s_unknown_source)).s,
      pay          |-> safe_pay(job),
      time_posted  |-> safe_time_posted(job),
      apply_link   |-> safe_apply_link(job),
      source_link  |-> safe_source_link(job) ]

\* safe_apply_link or safe_source_link raised at line 242 or 243
Raised(p) == p.apply_link = RAISED \/ p.source_link = RAISED

PrimaryRaises(job) == Raised(Primary(job))

\* the condition of line 245 without its job_id conjunct
LookupWanted_any_id(p) ==
    \/ p.pay = NA \/ p.time_posted = NA
    \/ p.apply_link = NA \/ p.source_link = NA

\* the condition of line 245
LookupWanted(p) ==
    /\ p.job_id # NA
    /\ \/ p.pay = NA \/ p.time_posted = NA
       \/ p.apply_link = NA \/ p.source_link = NA

NeedsLookup(job) == LookupWanted(Primary(job))

\* lines 259-270
Row(p, pay, time_posted, apply_link, source_link, source) ==
    [ job_id               |-> p.job_id,
      title                |-> p.title,
      company_name         |-> p.company_name,
      pay                  |-> OrNA(pay),
      time_posted          |-> OrNA(time_posted),
      location             |-> p.location,
      source               |-> source,
      apply_link           |-> OrNA(apply_link),
      source_link          |-> OrNA(source_link),
      company_careers_link |-> company_careers_search_link(p.company_name) ]

\* a or b for two str
OrStr(a, b) == IF a # <<>> THEN a ELSE b

\* lines 245-270 taking every field the details carry, also where the
\* posting supplied one
NormalizeFrom_overwrite(p, details) ==
    IF Raised(p) THEN [ok |-> FALSE]
    ELSE IF ~(LookupWanted(p) /\ Truthy(details))
    THEN [ok |-> TRUE,
          row |-> Row(p, p.pay, p.time_posted, p.apply_link, p.source_link, p.source)]
    ELSE IF details.t # "dict" THEN [ok |-> FALSE]
    ELSE
    LET pay == OrStr(safe_pay_from_details(details), p.pay)
        time_posted == OrStr(safe_time_posted_from_details(details), p.time_posted)
        apply_link == OrStr(safe_apply_link_from_details(details), p.apply_link)
        source_link == OrStr(safe_source_link_from_details(details), p.source_link)
        source == IF p.source = s_unknown_source
                  THEN Or(Get(details, "via"), PyStr(p.source)).s
                  ELSE p.source
    IN  IF apply_link = RAISED \/ source_link = RAISED THEN [ok |-> FALSE]
        ELSE [ok |-> TRUE,
              row |-> Row(p, pay, time_posted, apply_link, source_link, source)]

\* lines 245-270, p being what lines 233-243 computed and details what
\* serpapi_google_jobs_listing returned ({} when line 246 was not reached);
\* [ok |-> FALSE] when an AttributeError escaped
NormalizeFrom(p, details) ==
    IF Raised(p) THEN [ok |-> FALSE]
    ELSE IF ~(LookupWanted(p) /\ Truthy(details))
    THEN [ok |-> TRUE,
          row |-> Row(p, p.pay, p.time_posted, p.apply_link, p.source_link, p.source)]
    ELSE IF details.t # "dict" THEN [ok |-> FALSE]
    ELSE
    LET pay == IF p.pay = NA
               THEN OrStr(safe_pay_from_details(details), p.pay)
               ELSE p.pay
        time_posted == IF p.time_posted = NA
                       THEN OrStr(safe_time_posted_from_details(details), p.time_posted)
                       ELSE p.time_posted
        apply_link == IF p.apply_link = NA
                      THEN OrStr(safe_apply_link_from_details(details), p.apply_link)
                      ELSE p.apply_link
        source_link == IF p.source_link = NA
                       THEN OrStr(safe_source_link_from_details(details), p.source_link)
                       ELSE p.source_link
        source == IF p.source = s_unknown_source
                  THEN Or(Get(details, "via"), PyStr(p.source)).s
                  ELSE p.source
    IN  IF apply_link = RAISED \/ source_link = RAISED THEN [ok |-> FALSE]
        ELSE [ok |-> TRUE,
              row |-> Row(p, pay, time_posted, apply_link, source_link, source)]

\* normalize_row (the set binds p to the value of Primary(job), computed once)
normalize_row(job, details) ==
    CHOOSE res \in { NormalizeFrom(p, details) : p \in {Primary(job)} } : TRUE

-----------------------------------------------------------------------------
(* dedupe_by_job_id, the 7-day window and the sort *)

\* line 289
DedupeKey(row) ==
    IF row.job_id # <<>> THEN row.job_id
    ELSE row.title \o s_bar \o row.company_name \o s_bar \o row.location

RECURSIVE DedupeLoop(_, _, _)
DedupeLoop(rows, seen, out) ==
    IF rows = <<>> THEN out
    ELSE LET key == DedupeKey(Head(rows))
         IN  IF key \in seen THEN DedupeLoop(Tail(rows), seen, out)
             ELSE DedupeLoop(Tail(rows), seen \cup {key}, Append(out, Head(rows)))

\* the loop keeping the latest record of a key instead of the first
RECURSIVE DedupeLoopLast(_, _, _)
DedupeLoopLast(rows, seen, out) ==
    IF rows = <<>> THEN out
    ELSE LET key == DedupeKey(rows[Len(rows)])
             rest == SubSeq(rows, 1, Len(rows) - 1)
         IN  IF key \in seen THEN DedupeLoopLast(rest, seen, out)
             ELSE DedupeLoopLast(rest, seen \cup {key}, <<rows[Len(rows)]>> \o out)

dedupe_by_job_id_keep_last(rows) == DedupeLoopLast(rows, {}, <<>>)

dedupe_by_job_id(rows) == DedupeLoop(rows, {}, <<>>)

WINDOW_DAYS == 7

RecencyOf(r) == posted_days(r.time_posted)

\* line 371 letting two weeks through
WindowFilter_two_weeks(rows) == SelectSeq(rows, LAMBDA r : RecencyOf(r) <= 14)

\* line 371
WindowFilter(rows) == SelectSeq(rows, LAMBDA r : RecencyOf(r) <= WINDOW_DAYS)

\* the sort keys of line 372, one per row
RecencyKeys(rows) ==
    SubSeq([i \in 1..Len(rows) |-> RecencyOf(rows[i])], 1, Len(rows))

\* list.sort is stable: a row comes after the rows of smaller key and after
\* the earlier rows of equal key
StableOrder(rows, keys) ==
    LET n == Len(rows)
        Rank(i) == 1 + Cardinality({j \in 1..n :
                          keys[j] < keys[i] \/ (keys[j] = keys[i] /\ j < i)})
    IN  SubSeq([k \in 1..n |-> rows[CHOOSE i \in 1..n : Rank(i) = k]], 1, n)

\* line 372 (the set binds keys to their values, computed once)
SortByRecency(rows) ==
    CHOOSE out \in { StableOrder(rows, keys) : keys \in {RecencyKeys(rows)} } : TRUE

-----------------------------------------------------------------------------
(* The raw postings and lookup bodies the environment may answer with *)

u_apply == PyStr(S("https://jobs.example.com/apply/1"))
u_source == PyStr(S("https://boards.example.com/1"))
u_detail_apply == PyStr(S("https://careers.example.com/a"))
u_detail_source == PyStr(S("https://careers.example.com/b"))

Link(u) == PyDict([link |-> u])

Posting(id, title, company, description, location, via, links, ext, de) ==
    PyDict([ job_id |-> id, title |-> title, company_name |-> company,
             description |-> description, location |-> location, via |-> via,
             related_links |-> links, extensions |-> ext,
             detected_extensions |-> de ])

Det(salary, posted_at) == PyDict([salary |-> salary, posted_at |-> posted_at])

t_fsm == PyStr(S("Food Safety Manager"))
t_qa_sup == PyStr(S("QA Supervisor"))
t_qa_mgr == PyStr(S("QA Manager"))
t_qlead == PyStr(S("Quality Lead"))
c_acme == PyStr(S("Acme"))
c_acme_foods == PyStr(S("Acme Foods"))
c_dairy == PyStr(S("Dairy & Co"))
c_bakery == PyStr(S("Bakery Inc"))
l_austin == PyStr(S("Austin, TX"))
l_remote == PyStr(S("Anywhere"))
v_linkedin == PyStr(S("via LinkedIn"))
v_indeed == PyStr(S("via Indeed"))
full_links == PyList(<<Link(u_apply), Link(u_source)>>)

\* the postings of the modelled run of main
PostA == Posting(PyStr(S("j1")), t_fsm, c_acme, None, l_austin, v_linkedin,
                 full_links, None, Det(PyStr(S("$30 an hour")), PyStr(S("3 days ago"))))
PostB == Posting(PyStr(S("j1")), t_fsm, c_acme_foods, None, l_austin, v_indeed,
                 full_links, None, Det(PyStr(S("$30 an hour")), PyStr(S("Today"))))
PostC == Posting(PyStr(S("j2")), t_qa_mgr, c_dairy, None, l_remote, v_indeed,
                 full_links, None, Det(PyStr(S("$90K a year")), PyStr(S("2 weeks ago"))))
PostD == Posting(None, t_qa_mgr, c_dairy, None, l_austin, None,
                 PyList(<<Link(u_apply)>>),
                 PyList(<<PyStr(S("Just posted")), PyStr(S("$20 an hour"))>>), None)
PostE == Posting(None, t_qlead, c_bakery, None, l_remote, v_indeed,
                 PyList(<<Link(u_source)>>),
                 PyList(<<PyStr(S("3 days ago")), PyStr(S("Full-time"))>>), None)
PostF == Posting(PyStr(S("j4")), t_qa_sup, c_acme, PyStr(S("Lead the QA team")),
                 l_austin, v_linkedin, full_links, None,
                 Det(PyStr(S("$30 an hour")), PyStr(S("1 day ago"))))
PostG == Posting(PyStr(S("j3")), t_qlead, None, PyStr(S("HACCP plan owner")),
                 None, None, full_links, None, Det(PyStr(S("$25 an hour")), None))
PostH == Posting(None, t_fsm, c_acme, None, l_austin, v_indeed,
                 PyList(<<u_apply>>), None, None)

Postings == {PostA, PostB, PostC, PostD, PostE, PostF, PostG, PostH}

\* the shapes a single posting is drawn from when normalize_row is
\* examined on its own
ShapeIds == {None, PyStr(S("j1"))}
ShapeTexts ==
    { <<t_qa_sup, c_acme, None, l_austin, v_linkedin>>,
      <<t_qa_sup, c_dairy, None, None, None>>,
      <<t_fsm, c_acme, None, l_austin, None>>,
      <<None, None, PyStr(S("HACCP plan owner")), None, v_indeed>> }
ShapeLinks ==
    { None, EmptyList, u_apply, PyList(<<u_apply>>), PyList(<<PyDict(<<>>)>>),
      PyList(<<Link(u_apply)>>), full_links, PyList(<<Link(u_apply), PyInt(7)>>) }
ShapeExts ==
    { None,
      PyList(<<PyStr(S("Full-time")), PyInt(5)>>),
      PyList(<<PyInt(5), PyStr(S("2 days ago")), PyStr(S("$20 an hour"))>>) }
ShapeDets ==
    { None, PyStr(S("n/a")), Det(PyStr(S("$50K a year")), PyStr(S("Today"))),
      Det(None, PyStr(S("1 week ago"))), Det(PyInt(50000), None) }

Shapes ==
    { Posting(id, x[1], x[2], x[3], x[4], x[5], l, e, d) :
        id \in ShapeIds, x \in ShapeTexts, l \in ShapeLinks,
        e \in ShapeExts, d \in ShapeDets }

\* what r.json() may be in serpapi_google_jobs_listing
DetailFull ==
    PyDict([ detected_extensions |-> Det(PyStr(S("$40 an hour")), PyStr(S("1 day ago"))),
             apply_options |-> PyList(<<Link(u_detail_apply), Link(u_detail_source)>>),
             via |-> PyStr(S("via Glassdoor")) ])
DetailError == PyDict([error |-> PyStr(S("no results"))])
DetailBadOptions == PyDict([apply_options |-> PyList(<<u_detail_apply>>)])
DetailList == PyList(<<PyStr(S("x"))>>)

DetailBodies == {None, DetailFull, DetailError, DetailBadOptions, DetailList}

-----------------------------------------------------------------------------
(* posted_days on its own: the recency texts are the concatenations of at  *)
(* most MaxFrags fragments                                                 *)

MaxFrags == 3

Fragments ==
    { S("1"), S("3"), S(" "), S("day"), S("days ago"), S("week ago"),
      S("hours"), S("today"), S("Just Posted"), S("yesterday"),
      S("N/A"), S("unknown") }

RECURSIVE TextsOf(_)
TextsOf(n) ==
    IF n = 0 THEN { <<>> }
    ELSE LET shorter == TextsOf(n - 1)
         IN  shorter \cup { t \o f : t \in shorter, f \in Fragments }

Texts == TextsOf(MaxFrags)

IdleMain ==
    /\ qi = 0 /\ attempt = 0 /\ fetch_ok = FALSE /\ jobs = <<>> /\ ji = 0
    /\ all_rows = <<>> /\ lattempt = 0 /\ last = <<>>
    /\ accum = <<>> /\ deduped = <<>> /\ report = <<>>

InitPD ==
    /\ pc = "posted_days"
    /\ text \in Texts
    /\ days = -1
    /\ IdleMain

PostedDays ==
    /\ pc = "posted_days"
    /\ days' = posted_days(text)
    /\ pc' = "returned"
    /\ UNCHANGED <<text>>
    /\ UNCHANGED mainVars

SpecPD == InitPD /\ [][PostedDays]_vars

-----------------------------------------------------------------------------
(* C9: the rules of the recency parser, stated on the lower-cased text *)

\* the positions of L where <unit> stands after a number and white space
UnitOcc(L, unit) ==
    { p \in 1..Len(L) :
        /\ HasAt(L, p, unit)
        /\ p > 2
        /\ IsSpace(L[p - 1])
        /\ LET e == Max({k \in 1..(p - 1) : ~IsSpace(L[k])} \cup {0})
           IN  e >= 1 /\ IsDigit(L[e]) }

\* the number N of "<N> <unit>" at position p
NumberAt(L, p) ==
    LET e == Max({k \in 1..(p - 1) : ~IsSpace(L[k])})
        b == Min({k \in 1..e : \A j \in k..e : IsDigit(L[j])})
    IN  ParseInt(SubSeq(L, b, e))

c9_sentinels == {<<>>, S("n/a"), S("unknown")}

RuleTable(t) ==
    LET L == Lower(t)
        d == UnitOcc(L, s_day)
        w == UnitOcc(L, s_week)
    IN  << <<L \in c9_sentinels, 999>>,
           <<Contains(L, s_just_posted) \/ Contains(L, s_today), 0>>,
           <<Contains(L, s_yesterday), 1>>,
           <<UnitOcc(L, s_hour) # {}, 0>>,
           <<d # {}, IF d # {} THEN NumberAt(L, Min(d)) ELSE 0>>,
           <<w # {}, IF w # {} THEN 7 * NumberAt(L, Min(w)) ELSE 0>>,
           <<TRUE, 999>> >>

FirstRule(t) ==
    LET T == RuleTable(t)
    IN  T[Min({k \in 1..Len(T) : T[k][1]})][2]

c9_zero == {S("today"), S("Just Posted")}
c9_three_days == S("3 days ago")
c9_one_week == S("1 week ago")
c9_stale == {<<>>, S("unknown")}

\* C9: posted_days returns the value of the first rule that applies, the
\* rules being tried in the stated order on the lower-cased text; "today" and
\* "Just Posted" give 0, "3 days ago" 3, "1 week ago" 7, "" and "unknown" 999.
C9_FirstRuleApplies ==
    pc = "returned" =>
        /\ days = FirstRule(text)
        /\ text \in c9_zero => days = 0
        /\ text = c9_three_days => days = 3
        /\ text = c9_one_week => days = 7
        /\ text \in c9_stale => days = 999

C9_Witness ==
    /\ pc = "returned"
    /\ text = c9_one_week
    /\ days = 7

-----------------------------------------------------------------------------
(* main *)

NumQueries == 2   \* queries of build_queries() that are run
MaxJobs == 2      \* postings in one answer
MaxRows == 3      \* rows accumulated so far plus postings of one answer

fetch_max_attempts == 5
listing_max_attempts == 4

NoLast == [stage |-> "none"]

Init ==
    /\ pc = "fetch"
    /\ qi = 1
    /\ attempt = 1
    /\ fetch_ok = FALSE
    /\ jobs = <<>>
    /\ ji = 0
    /\ all_rows = <<>>
    /\ lattempt = 0
    /\ last = NoLast
    /\ accum = <<>>
    /\ deduped = <<>>
    /\ report = <<>>
    /\ text = <<>>
    /\ days = -1

JobLists(n) == UNION { [1..k -> Postings] : k \in 0..n }

FetchRoom == IF MaxRows - Len(all_rows) < MaxJobs THEN MaxRows - Len(all_rows) ELSE MaxJobs

\* one request of serpapi_google_jobs, an error status escaping the handler
FetchAttempt_uncaught ==
    /\ pc = "fetch"
    /\ \E outcome \in {"retry_status", "error_status", "exception", "success"} :
          IF outcome = "success"
          THEN \E js \in JobLists(FetchRoom) :
                  /\ jobs' = js
                  /\ fetch_ok' = TRUE
                  /\ pc' = "jobs"
                  /\ ji' = 1
                  /\ attempt' = 0
          ELSE IF outcome = "error_status"
          THEN /\ pc' = "aborted"
               /\ UNCHANGED <<attempt, fetch_ok, jobs, ji>>
          ELSE IF attempt < fetch_max_attempts
          THEN /\ attempt' = attempt + 1
               /\ UNCHANGED <<pc, fetch_ok, jobs, ji>>
          ELSE /\ jobs' = <<>>
               /\ fetch_ok' = FALSE
               /\ pc' = "jobs"
               /\ ji' = 1
               /\ attempt' = 0
    /\ UNCHANGED <<qi, all_rows, lattempt, last, accum, deduped, report, text, days>>

\* one request of serpapi_google_jobs (one turn of the loop of line 72): a
\* retry status, an error status (raise_for_status, caught at line 83) and a
\* network exception all lead to the next turn; after the last turn the call
\* returns [] from line 86
FetchAttempt ==
    /\ pc = "fetch"
    /\ \E outcome \in {"retry_status", "error_status", "exception", "success"} :
          IF outcome = "success"
          THEN \E js \in JobLists(FetchRoom) :
                  /\ jobs' = js
                  /\ fetch_ok' = TRUE
                  /\ pc' = "jobs"
                  /\ ji' = 1
                  /\ attempt' = 0
          ELSE IF attempt < fetch_max_attempts
          THEN /\ attempt' = attempt + 1
               /\ UNCHANGED <<pc, fetch_ok, jobs, ji>>
          ELSE /\ jobs' = <<>>
               /\ fetch_ok' = FALSE
               /\ pc' = "jobs"
               /\ ji' = 1
               /\ attempt' = 0
    /\ UNCHANGED <<qi, all_rows, lattempt, last, accum, deduped, report, text, days>>

\* lines 366-368 for jobs[ji], up to the return of normalize_row or its
\* request to serpapi_google_jobs_listing
ProcessJob ==
    /\ pc = "jobs"
    /\ ji <= Len(jobs)
    /\ \E job \in {jobs[ji]} : \E p \in {Primary(job)} :
           IF ~looks_food_industry(job)
           THEN /\ last' = [stage |-> "dropped", job |-> job]
                /\ ji' = ji + 1
                /\ UNCHANGED <<pc, all_rows, lattempt>>
           ELSE IF Raised(p)
           THEN /\ last' = [stage |-> "raised", job |-> job, calls |-> 0]
                /\ pc' = "aborted"
                /\ UNCHANGED <<ji, all_rows, lattempt>>
           ELSE IF LookupWanted(p)
           THEN /\ last' = [stage |-> "lookup", job |-> job, calls |-> 1]
                /\ pc' = "lookup"
                /\ lattempt' = 1
                /\ UNCHANGED <<ji, all_rows>>
           ELSE \E res \in {NormalizeFrom(p, EmptyDict)} :
                /\ last' = [stage |-> "row", job |-> job, calls |-> 0,
                            requests |-> 0, outcome |-> "none",
                            details |-> EmptyDict, row |-> res.row]
                /\ all_rows' = Append(all_rows, res.row)
                /\ ji' = ji + 1
                /\ UNCHANGED <<pc, lattempt>>
    /\ UNCHANGED <<qi, attempt, fetch_ok, jobs, accum, deduped, report, text, days>>

\* the rest of normalize_row once serpapi_google_jobs_listing has returned
LookupReturns(outcome, details) ==
    \E job \in {jobs[ji]} : \E res \in {normalize_row(job, details)} :
        IF res.ok
        THEN /\ last' = [stage |-> "row", job |-> job, calls |-> last.calls,
                         requests |-> lattempt, outcome |-> outcome,
                         details |-> details, row |-> res.row]
             /\ all_rows' = Append(all_rows, res.row)
             /\ ji' = ji + 1
             /\ pc' = "jobs"
             /\ lattempt' = 0
        ELSE /\ last' = [stage |-> "raised", job |-> job, calls |-> last.calls,
                         requests |-> lattempt, outcome |-> outcome,
                         details |-> details]
             /\ pc' = "aborted"
             /\ lattempt' = 0
             /\ UNCHANGED <<ji, all_rows>>

\* one request of serpapi_google_jobs_listing (one turn of the loop of line 97)
LookupAttempt ==
    /\ pc = "lookup"
    /\ \E outcome \in {"retry_status", "exception", "non200", "ok"} :
          IF outcome = "ok"
          THEN \E body \in DetailBodies : LookupReturns("ok", Or(body, EmptyDict))
          ELSE IF outcome = "non200"
          THEN LookupReturns("non200", EmptyDict)
          ELSE IF lattempt < listing_max_attempts
          THEN /\ lattempt' = lattempt + 1
               /\ UNCHANGED <<pc, ji, all_rows, last>>
          ELSE LookupReturns("exhausted", EmptyDict)
    /\ UNCHANGED <<qi, attempt, fetch_ok, jobs, accum, deduped, report, text, days>>

\* line 364: the next query (the previous answer is not read again)
NextQuery ==
    /\ pc = "jobs"
    /\ ji > Len(jobs)
    /\ qi < NumQueries
    /\ qi' = qi + 1
    /\ attempt' = 1
    /\ jobs' = <<>>
    /\ ji' = 0
    /\ pc' = "fetch"
    /\ UNCHANGED <<fetch_ok, all_rows, lattempt, last, accum, deduped, report, text, days>>

\* lines 370-376: dedupe, window, sort, create_excel
Finalize ==
    /\ pc = "jobs"
    /\ ji > Len(jobs)
    /\ qi = NumQueries
    /\ \E d \in {dedupe_by_job_id(all_rows)} : \E w \in {WindowFilter(d)} :
          /\ accum' = all_rows
          /\ deduped' = d
          /\ all_rows' = SortByRecency(w)
          /\ report' = all_rows'
    /\ pc' = "reported"
    /\ UNCHANGED <<qi, attempt, fetch_ok, jobs, ji, lattempt, last, text, days>>

Next == FetchAttempt \/ ProcessJob \/ LookupAttempt \/ NextQuery \/ Finalize

Spec == Init /\ [][Next]_vars

\* the inner loop of main on one posting of any shape
InitJob ==
    /\ pc = "jobs"
    /\ qi = 1
    /\ attempt = 1
    /\ fetch_ok = TRUE
    /\ jobs \in { <<p>> : p \in Shapes }
    /\ ji = 1
    /\ all_rows = <<>>
    /\ lattempt = 0
    /\ last = NoLast
    /\ accum = <<>>
    /\ deduped = <<>>
    /\ report = <<>>
    /\ text = <<>>
    /\ days = -1

NextJob == ProcessJob \/ LookupAttempt

SpecJob == InitJob /\ [][NextJob]_vars

-----------------------------------------------------------------------------
(* Properties of the run of main *)

Range(seq) == {seq[i] : i \in 1..Len(seq)}

\* the identity of a record: the provider's id when the posting had one,
\* else title, company and location
IdentityKey(r) ==
    IF r.job_id # NA THEN <<"id", r.job_id>>
    ELSE <<"composite", r.title, r.company_name, r.location>>

\* the index of the first record of rows with the identity of r
FirstWithKey(rows, r) ==
    Min({i \in 1..Len(rows) : IdentityKey(rows[i]) = IdentityKey(r)})

\* C1: the output of dedupe_by_job_id is a subsequence of its input, no two
\* of its records share an identity key, every kept record is the unmodified
\* lowest-index input record of its key, and every provider id of the input
\* keeps its record.
C1_DedupeKeepsFirst ==
    pc = "reported" =>
        /\ \A k \in 1..Len(deduped) : deduped[k] \in Range(accum)
        /\ \A k, l \in 1..Len(deduped) :
              k < l => /\ IdentityKey(deduped[k]) # IdentityKey(deduped[l])
                       /\ FirstWithKey(accum, deduped[k]) < FirstWithKey(accum, deduped[l])
        /\ \A k \in 1..Len(deduped) :
              deduped[k] = accum[FirstWithKey(accum, deduped[k])]
        /\ \A i \in 1..Len(accum) :
              accum[i].job_id # NA =>
                  \E k \in 1..Len(deduped) : deduped[k].job_id = accum[i].job_id

C1_Witness ==
    /\ pc = "reported"
    /\ Len(accum) = 3
    /\ Len(deduped) = 2
    /\ accum[1].job_id # NA
    /\ accum[1].job_id = accum[3].job_id
    /\ accum[1] # accum[3]
    /\ deduped = <<accum[1], accum[2]>>

\* C2: of two postings that both lack a job id and differ in title, company
\* or location, normalize_row followed by dedupe_by_job_id keeps both.
C2_CompositeKeyKeepsBoth ==
    pc = "reported" =>
        \A i, j \in 1..Len(accum) :
            ( /\ i < j
              /\ accum[i].job_id = NA
              /\ accum[j].job_id = NA
              /\ <<accum[i].title, accum[i].company_name, accum[i].location>>
                   # <<accum[j].title, accum[j].company_name, accum[j].location>> )
            => (accum[i] \in Range(deduped) /\ accum[j] \in Range(deduped))

\* the index of r in the accumulated rows
FirstIndex(rows, r) == Min({i \in 1..Len(rows) : rows[i] = r})

\* C3: the rows handed to create_excel are all at most 7 days old, ascend in
\* recency, and rows of equal recency stand in the order of accumulation.
C3_WindowSortedStable ==
    pc = "reported" =>
        /\ \A k \in 1..Len(report) : posted_days(report[k].time_posted) <= 7
        /\ \A k, l \in 1..Len(report) :
              k < l =>
                /\ posted_days(report[k].time_posted) <= posted_days(report[l].time_posted)
                /\ posted_days(report[k].time_posted) = posted_days(report[l].time_posted)
                     => FirstIndex(accum, report[k]) < FirstIndex(accum, report[l])

C3_Witness ==
    /\ pc = "reported"
    /\ Len(report) = 3
    /\ posted_days(report[1].time_posted) < posted_days(report[2].time_posted)
    /\ posted_days(report[2].time_posted) = posted_days(report[3].time_posted)
    /\ report[1] = accum[3]
    /\ report[2] = accum[1]
    /\ report[3] = accum[2]

\* C5: serpapi_google_jobs makes at most 5 requests and always returns, with
\* the empty list when every request failed, and main then goes on to the
\* next query (or, after the last one, to the report).
C5_FetchDegrades ==
    /\ [](attempt <= fetch_max_attempts)
    /\ [][ /\ pc = "fetch" => pc' \in {"fetch", "jobs"}
           /\ (pc = "fetch" /\ pc' = "jobs" /\ ~fetch_ok') => jobs' = <<>>
           /\ (pc = "jobs" /\ ~fetch_ok) =>
                 IF qi < NumQueries THEN pc' = "fetch" /\ qi' = qi + 1
                 ELSE pc' = "reported" ]_vars

C5_Witness ==
    /\ pc = "fetch"
    /\ qi = 2
    /\ ~fetch_ok
    /\ attempt = fetch_max_attempts

\* C6: every run of main reaches create_excel: as long as the report is not
\* written, main has a next step.
C6_AlwaysReports == pc = "reported" \/ ENABLED Next

-----------------------------------------------------------------------------
(* Properties of the inner loop on one posting *)

TitleOf(job) == Str(Or(Get(job, "title"), EmptyStr))
CompanyOf(job) == Str(Or(Get(job, "company_name"), EmptyStr))
DescriptionOf(job) == Str(Or(Get(job, "description"), EmptyStr))

c4_must_keep == S("qa supervisor")
c4_keywords ==
    { S("food"), S("meat"), S("dairy"), S("bakery"), S("beverage"), S("plant"),
      S("production"), S("warehouse"), S("haccp"), S("sqf"), S("fsqa"),
      S("gmp"), S("sanitation") }

Handled == last.stage # "none"

\* C4 as claimed: a posting whose lower-cased title holds the must-keep term
\* "qa supervisor" is passed on to the normalizer.
C4_MustKeepTitleKept ==
    (Handled /\ Contains(Lower(TitleOf(last.job)), c4_must_keep))
        => last.stage # "dropped"

\* C4 as amended: a posting is passed on to the normalizer exactly when a
\* food-domain keyword stands in its lower-cased title, company name or
\* description; the title alone does not keep it.
C4_KeptIffFoodKeyword ==
    Handled =>
        ( last.stage # "dropped" <=>
            \E field \in {TitleOf(last.job), CompanyOf(last.job), DescriptionOf(last.job)} :
                \E kw \in c4_keywords : Contains(Lower(field), kw) )

C4_Witness ==
    /\ Handled
    /\ last.stage = "dropped"
    /\ TitleOf(last.job) = S("QA Supervisor")

\* C7: normalize_row never raises, whatever the shape of the posting.
C7_NormalizeNeverRaises == Handled => last.stage # "raised"

\* a posting with no related_links and no structured salary or posted-at
NoLinksNoStructured(job) ==
    /\ ~Truthy(Get(job, "related_links"))
    /\ ~HasDetected(job, "salary")
    /\ ~HasDetected(job, "posted_at")

IsSearchUri(link) == Len(link) > Len(s_search_prefix) /\ HasAt(link, 1, s_search_prefix)

\* C8 as claimed: such a posting gets pay and posted text "N/A" and a
\* constructed web-search URI as apply link, and no record has the sentinel
\* as apply link.
C8_FallbackApplyLink ==
    last.stage = "row" =>
        /\ last.row.apply_link \notin {<<>>, NA}
        /\ NoLinksNoStructured(last.job) =>
              /\ last.row.pay = NA
              /\ last.row.time_posted = NA
              /\ IsSearchUri(last.row.apply_link)

c8_careers ==
    [ c \in {S("Acme"), S("Dairy & Co"), <<>>} |->
        IF c = S("Acme") THEN S("https://www.google.com/search?q=Acme+careers")
        ELSE IF c = S("Dairy & Co")
        THEN S("https://www.google.com/search?q=Dairy+%26+Co+careers")
        ELSE NA ]

\* C8 as amended: a posting with no related_links, no extensions and no
\* structured salary or posted-at, to which no lookup added data, gets pay,
\* posted text (recency 999) and apply link "N/A"; the constructed web-search
\* URI is company_careers_link, over the company name alone, and is "N/A"
\* when the posting names no company.
C8_SentinelApplyLink ==
    ( /\ last.stage = "row"
      /\ NoLinksNoStructured(last.job)
      /\ ~Truthy(Get(last.job, "extensions"))
      /\ ~Truthy(last.details) )
    => /\ last.row.pay = NA
       /\ last.row.time_posted = NA
       /\ posted_days(last.row.time_posted) = 999
       /\ last.row.apply_link = NA
       /\ last.row.company_careers_link = c8_careers[CompanyOf(last.job)]

C8_Witness ==
    /\ last.stage = "row"
    /\ NoLinksNoStructured(last.job)
    /\ ~Truthy(Get(last.job, "extensions"))
    /\ ~Truthy(last.details)
    /\ last.row.apply_link = NA
    /\ IsSearchUri(last.row.company_careers_link)

FrameFields == {"pay", "time_posted", "apply_link", "source_link"}

\* C10: the lookup is called at most once per posting and only for a posting
\* with a job id of which pay, posted text, apply link or source link came
\* out as "N/A"; it makes at most 4 requests and returns {} without raising
\* on a non-200 status or when its retries are used up; what the posting
\* supplied of the four fields stands unchanged in the record.
C10_LookupFrame ==
    /\ lattempt <= listing_max_attempts
    /\ last.stage \in {"lookup", "row", "raised"} =>
          /\ last.calls <= 1
          /\ last.calls = 1 =>
                /\ Truthy(Get(last.job, "job_id"))
                /\ \E f \in FrameFields : Primary(last.job)[f] = NA
    /\ (last.stage \in {"row", "raised"} /\ last.calls = 1) =>
          /\ last.requests <= listing_max_attempts
          /\ last.outcome \in {"non200", "exhausted"} =>
                (~Truthy(last.details) /\ last.stage = "row")
    /\ last.stage = "row" =>
          \A f \in FrameFields :
              Primary(last.job)[f] # NA => last.row[f] = Primary(last.job)[f]

C10_Witness ==
    /\ last.stage = "row"
    /\ last.calls = 1
    /\ last.outcome = "ok"
    /\ last.details = DetailFull
    /\ Primary(last.job).pay # NA
    /\ last.row.pay = Primary(last.job).pay
    /\ last.row.apply_link = u_detail_apply.s

=============================================================================
